---- MODULE Spec2Model ----
(***************************************************************************)
(* Model of the recursive site discovery of backend/main.go: the SSE       *)
(* handler, the goroutine-per-directory walk with its WaitGroup and        *)
(* unbuffered result channel, the site processor, and the remote Gitea     *)
(* service they talk to.                                                   *)
(*                                                                         *)
(* Strings are sequences of one-character strings, so that the regular     *)
(* expressions and the path arithmetic of the code operate on characters.  *)
(* A fixed multi-character literal of the code (a URL prefix, a message    *)
(* prefix) is kept as one element of the sequence.                         *)
(***************************************************************************)
EXTENDS Integers, Sequences, FiniteSets, TLC

\* ------------------------------------------------------------------------
\* Bounds of the model
\* ------------------------------------------------------------------------

\* number of remote trees the run may be started on (TreeOf(1) .. TreeOf(NumTrees))
NumTrees == 5

\* number of transport failures (timeout, connection error) the network may
\* inject into one run
MaxFail == 2

\* longest run of characters between "bm-node-" and ".yaml" in a generated name
MaxMid == 2

\* longest run of whitespace between the key and the value of a generated content
MaxWs == 2

\* longest value of a generated content
MaxVal == 2

\* number of URLs the remote server of a single fetch answers for
NumUrls == 2

\* ------------------------------------------------------------------------
\* String helpers
\* ------------------------------------------------------------------------

\* strings.HasPrefix at offset i: lit occurs in s at position i
OccursAt(s, i, lit) ==
    /\ i >= 1
    /\ i + Len(lit) - 1 <= Len(s)
    /\ SubSeq(s, i, i + Len(lit) - 1) = lit

\* the empty string ""
Empty == << >>

Slash == <<"/">>

\* ------------------------------------------------------------------------
\* The regular expressions (main.go:31-35)
\* ------------------------------------------------------------------------

\* the literal pieces of `bm-node-.+\.yaml$`
BmNodeLit == <<"b", "m", "-", "n", "o", "d", "e", "-">>
YamlLit == <<".", "y", "a", "m", "l">>

\* bmNodeFileRegex.MatchString(s): somewhere "bm-node-", then one or more
\* characters other than a newline, then ".yaml" at the end of the text
bmNodeFileRegex(s) ==
    \E i \in 1..Len(s) :
        /\ OccursAt(s, i, BmNodeLit)
        /\ OccursAt(s, Len(s) - Len(YamlLit) + 1, YamlLit)
        /\ Len(s) - Len(YamlLit) >= i + Len(BmNodeLit)
        /\ \A k \in (i + Len(BmNodeLit))..(Len(s) - Len(YamlLit)) : s[k] # "\n"

\* the literal key of hostnameRegex
HostnameKey ==
    <<"b", "m", "a", "c", ".", "a", "g", "e", "n", "t", "-", "i", "n", "s", "t",
      "a", "l", "l", ".", "o", "p", "e", "n", "s", "h", "i", "f", "t", ".", "i",
      "o", "/", "h", "o", "s", "t", "n", "a", "m", "e", ":">>

\* \s of RE2: [\t\n\f\r ]
IsSpace(c) == c \in {" ", "\t", "\n", "\f", "\r"}

IsQuote(c) == c \in {"\"", "'"}

\* a character of the capture class [^\n"'\s]
IsValueChar(c) == ~IsSpace(c) /\ ~IsQuote(c)

\* first position >= i of s that holds no whitespace (Len(s)+1 when none): \s*
RECURSIVE SkipSpace(_, _)
SkipSpace(s, i) ==
    IF i <= Len(s) /\ IsSpace(s[i]) THEN SkipSpace(s, i + 1) ELSE i

\* first position >= i of s that holds no value character: ([^\n"'\s]+)
RECURSIVE SkipValue(_, _)
SkipValue(s, i) ==
    IF i <= Len(s) /\ IsValueChar(s[i]) THEN SkipValue(s, i + 1) ELSE i

\* an expression without the optional opening quote
CaptureStartNoQuote(s, i) == SkipSpace(s, i + Len(HostnameKey))

\* where the capture group starts when the key matched at i: after the
\* whitespace and, when one is there, one quote
CaptureStart(s, i) ==
    LET j == SkipSpace(s, i + Len(HostnameKey))
    IN  IF j <= Len(s) /\ IsQuote(s[j]) THEN j + 1 ELSE j

\* the expression matches with the key at position i
MatchesAt(s, i) ==
    /\ OccursAt(s, i, HostnameKey)
    /\ SkipValue(s, CaptureStart(s, i)) > CaptureStart(s, i)

\* the match with the key at position i, its capture running from a to
\* z - 1: <<whole match, group 1>>; a closing quote belongs to the match
Submatch(s, i, a, z) ==
    <<SubSeq(s, i, IF z <= Len(s) /\ IsQuote(s[z]) THEN z ELSE z - 1),
      SubSeq(s, a, z - 1)>>

\* a search that returns the last match of the content, not the first
hostnameRegexLast(content) ==
    LET rightmost == {i \in 1..Len(content) :
                        /\ MatchesAt(content, i)
                        /\ \A g \in (i + 1)..Len(content) : ~MatchesAt(content, g)}
        found == UNION {UNION {{Submatch(content, i, a, z) :
                                    z \in {SkipValue(content, a)}} :
                                    a \in {CaptureStart(content, i)}} :
                                    i \in rightmost}
    IN  IF found = {} THEN << >> ELSE CHOOSE m \in found : TRUE

\* hostnameRegex.FindStringSubmatch(content): << >> when nothing matches,
\* otherwise <<whole match, group 1>> of the leftmost match
hostnameRegex(content) ==
    LET leftmost == {i \in 1..Len(content) :
                        /\ MatchesAt(content, i)
                        /\ \A g \in 1..(i - 1) : ~MatchesAt(content, g)}
        found == UNION {UNION {{Submatch(content, i, a, z) :
                                    z \in {SkipValue(content, a)}} :
                                    a \in {CaptureStart(content, i)}} :
                                    i \in leftmost}
    IN  IF found = {} THEN << >> ELSE CHOOSE m \in found : TRUE

\* ------------------------------------------------------------------------
\* URLs (main.go:58-59, 108-119, 208-214)
\* ------------------------------------------------------------------------

\* dataHandler fixes repoURL = https://codeview.jio.indradhanus.com/indradhanus/sites
\* and branch = prod, so baseURL, owner and repo are constants of the run:
\* what precedes and what follows the path in a URL is one literal each.
ApiPrefix == <<"https://codeview.jio.indradhanus.com/api/v1/repos/indradhanus/sites/contents">>
RefSuffix == <<"?ref=prod">>
RawPrefix == <<"https://codeview.jio.indradhanus.com/indradhanus/sites/raw/branch/prod/">>

convertToGiteaAPIURL(path) ==
    LET pathSegment == IF path # Empty THEN Slash \o path ELSE Empty
    IN  ApiPrefix \o pathSegment \o RefSuffix

constructRawURL(filePath) == RawPrefix \o filePath

\* the raw prefix under which the service of tree t advertises its files in
\* download_url: built from the root URL the service is configured with,
\* which for tree 4 is not the address the client was given
AdvertisedPrefix(t) ==
    IF t = 4 THEN <<"https://gitea.internal:3000/indradhanus/sites/raw/branch/prod/">>
    ELSE RawPrefix

\* ------------------------------------------------------------------------
\* The remote trees
\* ------------------------------------------------------------------------

NameA == <<"a">>
NameB == <<"b">>
NameRoot == <<"r", "o", "o", "t">>
NameNotes == <<"n", ".", "t", "x", "t">>
NameNode1 == BmNodeLit \o <<"1">> \o YamlLit
NameNode2 == BmNodeLit \o <<"2">> \o YamlLit
NameNode3 == BmNodeLit \o <<"3">> \o YamlLit

P(dir, name) == dir \o Slash \o name

\* file contents
TextH1 == <<"x", "\n", " ">> \o HostnameKey \o <<" ", "\"", "h", "1", "\"", "\n">>
TextH2 == HostnameKey \o <<" ", "h", "2", "\n">>
TextNone == <<"k", ":", " ", "v", "\n">>

dirEntry(name) == [name |-> name, type |-> "dir"]
fileEntry(name) == [name |-> name, type |-> "file"]

\* the directories of tree t: path -> children in listing order
DirsOf(t) ==
    CASE t = 1 ->
           (Empty :> <<dirEntry(NameA), fileEntry(NameNotes)>>)
        @@ (NameA :> << >>)
      [] t = 2 ->
           (Empty :> <<fileEntry(NameNode1), dirEntry(NameA)>>)
        @@ (NameA :> <<dirEntry(NameB)>>)
        @@ (P(NameA, NameB) :> <<fileEntry(NameNode1), fileEntry(NameNotes), fileEntry(NameNode2)>>)
      [] t = 3 ->
           (Empty :> <<fileEntry(NameNode1), dirEntry(NameRoot), dirEntry(NameA)>>)
        @@ (NameRoot :> <<fileEntry(NameNode2)>>)
        @@ (NameA :> <<fileEntry(NameNode2), dirEntry(NameB)>>)
        @@ (P(NameA, NameB) :> <<fileEntry(NameNode1)>>)
      [] t = 4 ->
           (Empty :> <<dirEntry(NameA), dirEntry(NameB)>>)
        @@ (NameA :> <<fileEntry(NameNode2), fileEntry(NameNode1)>>)
        @@ (NameB :> <<fileEntry(NameNode3), fileEntry(NameNode1)>>)
      [] t = 5 ->
           (Empty :> <<fileEntry(NameNode1), fileEntry(NameRoot), dirEntry(NameNode2)>>)
        @@ (NameNode2 :> << >>)
      [] OTHER ->
           (Empty :> <<dirEntry(NameA), fileEntry(NameNode2), dirEntry(NameB)>>)
        @@ (NameA :> <<fileEntry(NameNode1), dirEntry(NameB)>>)
        @@ (P(NameA, NameB) :> <<fileEntry(NameNode1)>>)
        @@ (NameB :> <<fileEntry(NameNotes)>>)

\* the content of the file at a path: by its name
TextOf(name) ==
    CASE name = NameNode1 -> TextH1
      [] name = NameNode2 -> TextNone
      [] name = NameNode3 -> TextH2
      [] name = NameRoot -> TextH2
      [] OTHER -> TextNone

\* currentPath + "/" + name, or name alone at the root (main.go:198-201)
JoinPath(dir, name) == IF dir # Empty THEN P(dir, name) ELSE name

\* the files of tree t: <<directory, index in its listing>>
FileSlots(t) ==
    UNION {{<<d, k>> : k \in {j \in 1..Len(DirsOf(t)[d]) : DirsOf(t)[d][j].type = "file"}} :
              d \in DOMAIN DirsOf(t)}

SlotPath(t, dk) == JoinPath(dk[1], DirsOf(t)[dk[1]][dk[2]].name)

\* paths of tree t that their parent's listing reports with type dir and
\* that resolve to a single file when they are listed themselves
LeafPaths(t) == IF t = 5 THEN {NameNode2} ELSE {}

IsDirPath(t, p) == p \in DOMAIN DirsOf(t) \ LeafPaths(t)

IsFilePath(t, p) == p \in LeafPaths(t) \/ \E dk \in FileSlots(t) : SlotPath(t, dk) = p

FileText(t, p) ==
    IF p \in LeafPaths(t) THEN TextNone
    ELSE LET dk == CHOOSE s \in FileSlots(t) : SlotPath(t, s) = p
         IN  TextOf(DirsOf(t)[dk[1]][dk[2]].name)

\* ------------------------------------------------------------------------
\* The remote service: what it answers to a GET of a URL
\* ------------------------------------------------------------------------

\* one entry of a contents response, as json.Unmarshal fills a GiteaFile
\* (main.go:24-29); a directory has no download_url
GiteaFile(t, dir, e) ==
    [Name |-> e.name,
     Type |-> e.type,
     DownloadURL |-> IF e.type = "file" THEN AdvertisedPrefix(t) \o JoinPath(dir, e.name)
                     ELSE Empty]

ContentsOf(t, dir) ==
    [k \in 1..Len(DirsOf(t)[dir]) |-> GiteaFile(t, dir, DirsOf(t)[dir][k])]

NoBody == [json |-> "none", items |-> << >>, text |-> Empty]

\* the path a contents URL names
ApiPathOf(url) ==
    LET mid == SubSeq(url, 2, Len(url) - 1)
    IN  IF mid = Empty THEN Empty ELSE Tail(mid)

\* the response of the service of tree t: a JSON array for a directory, a
\* JSON object for a single file, the bytes of a raw file, 404 otherwise
ServerResponse(t, url) ==
    IF Head(url) = Head(ApiPrefix)
    THEN LET p == ApiPathOf(url)
         IN  IF IsDirPath(t, p)
             THEN [neterr |-> FALSE, StatusCode |-> 200, Status |-> "200 OK",
                   body |-> [json |-> "array", items |-> ContentsOf(t, p), text |-> Empty]]
             ELSE IF IsFilePath(t, p)
             THEN [neterr |-> FALSE, StatusCode |-> 200, Status |-> "200 OK",
                   body |-> [json |-> "object", items |-> << >>, text |-> Empty]]
             ELSE [neterr |-> FALSE, StatusCode |-> 404, Status |-> "404 Not Found",
                   body |-> NoBody]
    ELSE LET p == Tail(url)
         IN  IF IsFilePath(t, p)
             THEN [neterr |-> FALSE, StatusCode |-> 200, Status |-> "200 OK",
                   body |-> [json |-> "none", items |-> << >>, text |-> FileText(t, p)]]
             ELSE [neterr |-> FALSE, StatusCode |-> 404, Status |-> "404 Not Found",
                   body |-> NoBody]

\* the request never got a response: timeout, connection error
TransportError == [neterr |-> TRUE, StatusCode |-> 0, Status |-> "", body |-> NoBody]

\* ------------------------------------------------------------------------
\* The client (main.go:85-135)
\* ------------------------------------------------------------------------

ErrGet(url) == <<"Get ">> \o url \o <<": context deadline exceeded">>
ErrStatus(resp, url) ==
    <<"HTTP ", ToString(resp.StatusCode), ": ", resp.Status, " for ">> \o url

\* fetchURL(url), given what came back: [ok, err, body]
fetchURL(url, resp) ==
    IF resp.neterr
    THEN [ok |-> FALSE, err |-> ErrGet(url), body |-> NoBody]
    ELSE IF resp.StatusCode # 200
    THEN [ok |-> FALSE, err |-> ErrStatus(resp, url), body |-> NoBody]
    ELSE [ok |-> TRUE, err |-> Empty, body |-> resp.body]

\* a listing that returns the error of json.Unmarshal
getGiteaDirectoryListingStrict(path, resp) ==
    LET apiURL == convertToGiteaAPIURL(path)
        r == fetchURL(apiURL, resp)
    IN  IF ~r.ok
        THEN [ok |-> FALSE, err |-> r.err, files |-> << >>]
        ELSE IF r.body.json # "array"
        THEN [ok |-> FALSE, files |-> << >>,
              err |-> <<"json: cannot unmarshal object into Go value of type []main.GiteaFile">>]
        ELSE [ok |-> TRUE, err |-> Empty, files |-> r.body.items]

\* getGiteaDirectoryListing(repoURL, path, branch), given what came back:
\* a body that is no JSON array gives (nil, nil)
getGiteaDirectoryListing(path, resp) ==
    LET apiURL == convertToGiteaAPIURL(path)
        r == fetchURL(apiURL, resp)
    IN  IF ~r.ok
        THEN [ok |-> FALSE, err |-> r.err, files |-> << >>]
        ELSE IF r.body.json # "array"
        THEN [ok |-> TRUE, err |-> Empty, files |-> << >>]
        ELSE [ok |-> TRUE, err |-> Empty, files |-> r.body.items]

\* a classification that does not look at the type of the entry
isSiteDirectoryAnyType(items) ==
    \E k \in 1..Len(items) : bmNodeFileRegex(items[k].Name)

\* isSiteDirectory(items) (main.go:137-144)
isSiteDirectory(items) ==
    \E k \in 1..Len(items) :
        items[k].Type = "file" /\ bmNodeFileRegex(items[k].Name)

\* ------------------------------------------------------------------------
\* The site processor, as functions of what the network returned
\* (main.go:146-177)
\* ------------------------------------------------------------------------

\* SiteHostnameInfo{SitePath: sitePath, Hostnames: []string{}, ...} (main.go:147)
NewSiteInfo(sitePath) ==
    [SitePath |-> sitePath, Hostnames |-> << >>, BMNodeFiles |-> << >>, Errors |-> << >>]

\* the condition of the loop body (main.go:157)
IsBmNodeFile(file) == file.Type = "file" /\ bmNodeFileRegex(file.Name)

\* a processor that drops the cause of the failed listing
DropListingError(info, err) == info

\* the listing failed (main.go:150-151)
AppendListingError(info, err) == [info EXCEPT !.Errors = Append(@, err)]

\* a processor that fetches from download_url when the entry has one
FileURLDirect(sitePath, file) ==
    IF file.DownloadURL # Empty THEN file.DownloadURL
    ELSE constructRawURL(sitePath \o Slash \o file.Name)

\* the URL the content of a matched file is fetched from (main.go:160)
FileURL(sitePath, file) == constructRawURL(sitePath \o Slash \o file.Name)

MsgFetch(name, err) == <<"Error processing ">> \o name \o <<": ">> \o err
\* a processor that reports a missing annotation as it reports a failed fetch
MsgAbsentAsFetch(name) == MsgFetch(name, <<"no hostname annotation">>)

MsgAbsent(name) == <<"No hostname annotation found in ">> \o name

\* the loop body without the continue of main.go:165: a failed fetch falls
\* through to the search of the (empty) content
ProcessFileNoContinue(info, file, r) ==
    LET named == [info EXCEPT !.BMNodeFiles = Append(@, file.Name)]
        failed == IF ~r.ok
                  THEN [named EXCEPT !.Errors = Append(@, MsgFetch(file.Name, r.err))]
                  ELSE named
        match == hostnameRegex(r.body.text)
    IN  IF Len(match) > 1
        THEN [failed EXCEPT !.Hostnames = Append(@, match[2])]
        ELSE [failed EXCEPT !.Errors = Append(@, MsgAbsent(file.Name))]

\* the loop body with the append of main.go:158 moved behind the fetch: only
\* a fetched file is recorded in BMNodeFiles
ProcessFileNameAfterFetch(info, file, r) ==
    IF ~r.ok
    THEN [info EXCEPT !.Errors = Append(@, MsgFetch(file.Name, r.err))]
    ELSE LET named == [info EXCEPT !.BMNodeFiles = Append(@, file.Name)]
             match == hostnameRegex(r.body.text)
         IN  IF Len(match) > 1
             THEN [named EXCEPT !.Hostnames = Append(@, match[2])]
             ELSE [named EXCEPT !.Errors = Append(@, MsgAbsent(file.Name))]

\* the loop body putting a new hostname in front of the earlier ones
ProcessFilePrepend(info, file, r) ==
    LET named == [info EXCEPT !.BMNodeFiles = Append(@, file.Name)]
    IN  IF ~r.ok
        THEN [named EXCEPT !.Errors = Append(@, MsgFetch(file.Name, r.err))]
        ELSE LET match == hostnameRegex(r.body.text)
             IN  IF Len(match) > 1
                 THEN [named EXCEPT !.Hostnames = <<match[2]>> \o @]
                 ELSE [named EXCEPT !.Errors = Append(@, MsgAbsent(file.Name))]

\* one pass of the loop body for a matched file, r being what fetchURL
\* returned (main.go:158-173)
ProcessFile(info, file, r) ==
    LET named == [info EXCEPT !.BMNodeFiles = Append(@, file.Name)]
    IN  IF ~r.ok
        THEN [named EXCEPT !.Errors = Append(@, MsgFetch(file.Name, r.err))]
        ELSE LET match == hostnameRegex(r.body.text)
             IN  IF Len(match) > 1
                 THEN [named EXCEPT !.Hostnames = Append(@, match[2])]
                 ELSE [named EXCEPT !.Errors = Append(@, MsgAbsent(file.Name))]

\* first index >= k of items that the processor's loop acts on
\* (Len(items) + 1 when the loop is over)
RECURSIVE NextFile(_, _)
NextFile(items, k) ==
    IF k <= Len(items) /\ ~IsBmNodeFile(items[k]) THEN NextFile(items, k + 1) ELSE k

\* ------------------------------------------------------------------------
\* The coordinator, as functions (main.go:179-221)
\* ------------------------------------------------------------------------

\* pathKey (main.go:189-192)
PathKey(currentPath) == IF currentPath = Empty THEN NameRoot ELSE currentPath

\* the path the processor is called with (main.go:193)
ProcessorPath(currentPath) == PathKey(currentPath)

\* first index >= k of items that is a directory (main.go:196-197)
RECURSIVE NextDir(_, _)
NextDir(items, k) ==
    IF k <= Len(items) /\ items[k].Type # "dir" THEN NextDir(items, k + 1) ELSE k

\* wg.Add(1) (main.go:202, 218)
wgAdd(n) == n + 1

\* a return that leaves the counter alone
wgDoneMissing(n) == n

\* the deferred wg.Done() (main.go:180)
wgDone(n) == n - 1

\* json.Marshal of a SiteHostnameInfo: the field names of the struct tags
\* (main.go:17-22, 71)
Marshal(info) ==
    [sitePath |-> info.SitePath, hostnames |-> info.Hostnames,
     bmNodeFiles |-> info.BMNodeFiles, errors |-> info.Errors]

\* ------------------------------------------------------------------------
\* The sequential twin: class BMNodeHostnameExtractor, as functions of the
\* tree t and of the set failing of URLs whose request times out
\* ------------------------------------------------------------------------

convertToGiteaApiUrl(path) ==
    LET pathSegment == IF path # Empty THEN Slash \o path ELSE Empty
    IN  ApiPrefix \o pathSegment \o RefSuffix

constructRawUrl(filePath) == RawPrefix \o filePath

\* response.statusMessage: the reason phrase without the code
statusMessage(resp) == IF resp.StatusCode = 200 THEN "OK" ELSE "Not Found"

\* fetchUrl(url): [ok, err, body]; the promise is rejected on a timeout and
\* on a status other than 200
fetchUrl(t, failing, url) ==
    IF url \in failing
    THEN [ok |-> FALSE, err |-> <<"Request timeout for ">> \o url, body |-> NoBody]
    ELSE LET resp == ServerResponse(t, url)
         IN  IF resp.StatusCode # 200
             THEN [ok |-> FALSE, body |-> NoBody,
                   err |-> <<"HTTP ", ToString(resp.StatusCode), ": ",
                             statusMessage(resp), " for ">> \o url]
             ELSE [ok |-> TRUE, err |-> Empty, body |-> resp.body]

\* getGiteaDirectoryListing of the twin: [] on every error, a body that is
\* no array included
getGiteaDirectoryListingTs(t, failing, path) ==
    LET r == fetchUrl(t, failing, convertToGiteaApiUrl(path))
    IN  IF r.ok /\ r.body.json = "array" THEN r.body.items ELSE << >>

\* extractHostnameFromContent(content): match ? match[1] : null
extractHostnameFromContent(content) ==
    LET match == hostnameRegex(content)
    IN  IF match # << >> THEN match[2] ELSE Empty

\* the body of the loop over bmNodeFiles of the twin's processSiteDirectory
processFileTs(t, failing, siteInfo, file) ==
    LET fileUrl == IF file.DownloadURL # Empty THEN file.DownloadURL
                   ELSE constructRawUrl(siteInfo.sitePath \o Slash \o file.Name)
        named == [siteInfo EXCEPT !.bmNodeFiles = Append(@, file.Name)]
        r == fetchUrl(t, failing, fileUrl)
    IN  IF ~r.ok
        THEN [named EXCEPT !.errors =
                Append(@, <<"Error processing ">> \o file.Name \o <<": ">> \o r.err)]
        ELSE IF extractHostnameFromContent(r.body.text) # Empty
        THEN [named EXCEPT !.hostnames = Append(@, extractHostnameFromContent(r.body.text))]
        ELSE [named EXCEPT !.errors =
                Append(@, <<"No hostname annotation found in ">> \o file.Name)]

\* the loop over bmNodeFiles, from the k-th item on
RECURSIVE processFilesTs(_, _, _, _, _)
processFilesTs(t, failing, siteInfo, its, k) ==
    IF k > Len(its) THEN siteInfo
    ELSE IF IsBmNodeFile(its[k])
    THEN processFilesTs(t, failing, processFileTs(t, failing, siteInfo, its[k]), its, k + 1)
    ELSE processFilesTs(t, failing, siteInfo, its, k + 1)

\* processSiteDirectory of the twin
processSiteDirectoryTs(t, failing, sitePath) ==
    processFilesTs(t, failing,
                   [sitePath |-> sitePath, hostnames |-> << >>,
                    bmNodeFiles |-> << >>, errors |-> << >>],
                   getGiteaDirectoryListingTs(t, failing, sitePath), 1)

\* siteMap.set(key, value)
MapSet(siteMap, key, value) ==
    [x \in DOMAIN siteMap \cup {key} |-> IF x = key THEN value ELSE siteMap[x]]

\* discoverSitesRecursively of the twin, and its loop over the
\* subdirectories from the k-th item on: the map is threaded through
RECURSIVE discoverSitesRecursivelyTs(_, _, _, _)
RECURSIVE scanSubdirectoriesTs(_, _, _, _, _, _)
discoverSitesRecursivelyTs(t, failing, currentPath, siteMap) ==
    LET its == getGiteaDirectoryListingTs(t, failing, currentPath)
        withSite == IF isSiteDirectory(its)
                    THEN MapSet(siteMap, PathKey(currentPath),
                                processSiteDirectoryTs(t, failing, currentPath))
                    ELSE siteMap
    IN  scanSubdirectoriesTs(t, failing, currentPath, its, 1, withSite)

scanSubdirectoriesTs(t, failing, currentPath, its, k, siteMap) ==
    IF k > Len(its) THEN siteMap
    ELSE IF its[k].Type = "dir"
    THEN scanSubdirectoriesTs(t, failing, currentPath, its, k + 1,
            discoverSitesRecursivelyTs(t, failing, JoinPath(currentPath, its[k].Name),
                                       siteMap))
    ELSE scanSubdirectoriesTs(t, failing, currentPath, its, k + 1, siteMap)

\* extractHostnamesFromGiteaRepository of the twin: the map of the walk from
\* the root
extractHostnamesFromGiteaRepositoryTs(t, failing) ==
    discoverSitesRecursivelyTs(t, failing, Empty, << >>)

\* ------------------------------------------------------------------------
\* State
\* ------------------------------------------------------------------------

VARIABLES
    tree,        \* the remote tree of this run (unchanging)
    fails,       \* transport failures injected so far
    mpc,         \* the goroutine of dataHandler that runs the walk (main.go:64-67)
    wg,          \* the WaitGroup counter
    chanClosed,  \* siteInfoChan is closed
    pc,          \* per directory: where its discoverSitesRecursively goroutine is
    items,       \* per directory: items of discoverSitesRecursively
    siteInfo,    \* per directory: siteInfo of processSiteDirectory
    procItems,   \* per directory: items of processSiteDirectory
    fileIdx,     \* per directory: position of the loop of processSiteDirectory
    subIdx,      \* per directory: position of the loop of discoverSitesRecursively
    hpc,         \* the loop of dataHandler (main.go:70-79)
    cur,         \* siteInfo of dataHandler's loop
    sse,         \* the frames written to the client
    received,    \* history: the records received from the channel, in order
    recvFrom,    \* history: the directory whose goroutine sent each of them
    requests,    \* history: the GETs made, [by, kind, url, ok]
    outcomes,    \* history: per directory, the outcome of each matched file
    listFailed,  \* history: directories whose listing by the coordinator failed
    call,        \* the function applied on its own, "none" during a walk
    arg,         \* the arguments it was applied to
    ret,         \* what it returned
    local,       \* the locals of a fetch in progress
    eventSource, \* browser: readyState of the EventSource of App
    loading,     \* browser: the state loading of App
    siteData,    \* browser: the state siteData of App
    delivered    \* browser: number of frames dispatched as message events

vars == <<tree, fails, mpc, wg, chanClosed, pc, items, siteInfo, procItems,
          fileIdx, subIdx, hpc, cur, sse, received, recvFrom, requests,
          outcomes, listFailed, call, arg, ret, local, eventSource, loading,
          siteData, delivered>>

\* the variables of the browser
browser == <<eventSource, loading, siteData, delivered>>

\* the variables of a function applied on its own, and the browser, which
\* the walk never touches
direct == <<call, arg, ret, local, browser>>

\* the variables of the walk and of dataHandler
walk == <<tree, fails, mpc, wg, chanClosed, pc, items, siteInfo, procItems,
          fileIdx, subIdx, hpc, cur, sse, received, recvFrom, requests,
          outcomes, listFailed>>

Dirs == DOMAIN DirsOf(tree)

\* what the network may return for a GET
Responses(url) ==
    {ServerResponse(tree, url)} \cup (IF fails < MaxFail THEN {TransportError} ELSE {})

\* the state of the walk before extractHostnamesFromGiteaRepository is called
\* on tree t
Constructed(t) ==
    /\ tree = t
    /\ fails = 0
    /\ wg = 0
    /\ chanClosed = FALSE
    /\ pc = [d \in DOMAIN DirsOf(tree) |-> "idle"]
    /\ items = [d \in DOMAIN DirsOf(tree) |-> << >>]
    /\ siteInfo = [d \in DOMAIN DirsOf(tree) |-> NewSiteInfo(Empty)]
    /\ procItems = [d \in DOMAIN DirsOf(tree) |-> << >>]
    /\ fileIdx = [d \in DOMAIN DirsOf(tree) |-> 1]
    /\ subIdx = [d \in DOMAIN DirsOf(tree) |-> 1]
    /\ hpc = "range"
    /\ cur = NewSiteInfo(Empty)
    /\ sse = << >>
    /\ received = << >>
    /\ recvFrom = << >>
    /\ requests = {}
    /\ outcomes = [d \in DOMAIN DirsOf(tree) |-> << >>]
    /\ listFailed = {}

\* no fetch in progress
NoLocal == [url |-> Empty, redirects |-> 0, open |-> {}]

\* App before its effect has run: no EventSource yet (App.tsx:6-7)
Unmounted ==
    /\ eventSource = "none"
    /\ loading = TRUE
    /\ siteData = << >>
    /\ delivered = 0

Init ==
    /\ \E t \in 1..NumTrees : Constructed(t)
    /\ mpc = "start"
    /\ call = "none"
    /\ arg = << >>
    /\ ret = << >>
    /\ local = NoLocal
    /\ Unmounted

\* ------------------------------------------------------------------------
\* Actions
\* ------------------------------------------------------------------------

Request(b, kind, url, resp) ==
    /\ requests' = requests \cup {[by |-> b, kind |-> kind, url |-> url, ok |-> ~resp.neterr /\ resp.StatusCode = 200]}
    /\ fails' = IF resp.neterr THEN fails + 1 ELSE fails

\* where discoverSitesRecursively goes on at the loop over items (main.go:196)
LoopPc(its, k) == IF NextDir(its, k) <= Len(its) THEN "spawn" ELSE "ret"

\* extractHostnamesFromGiteaRepository: wg.Add(1); go discoverSitesRecursively("")
\* (main.go:216-219)
Start ==
    /\ mpc = "start"
    /\ wg' = wgAdd(wg)
    /\ pc' = [pc EXCEPT ![Empty] = "list"]
    /\ mpc' = "wait"
    /\ UNCHANGED <<direct, tree, fails, chanClosed, items, siteInfo, procItems, fileIdx,
                   subIdx, hpc, cur, sse, received, recvFrom, requests, outcomes,
                   listFailed>>

\* discoverSitesRecursively: the listing and the classification
\* (main.go:182-193); failPc is where the goroutine goes on when the listing
\* failed
ListStep(b, failPc) ==
    /\ pc[b] = "list"
    /\ \E resp \in Responses(convertToGiteaAPIURL(b)) :
        \E r \in {getGiteaDirectoryListing(b, resp)} :
            /\ Request(b, "list", convertToGiteaAPIURL(b), resp)
            /\ IF ~r.ok
               THEN /\ pc' = [pc EXCEPT ![b] = failPc]
                    /\ listFailed' = listFailed \cup {b}
                    /\ UNCHANGED <<items, siteInfo, subIdx>>
               ELSE /\ items' = [items EXCEPT ![b] = r.files]
                    /\ subIdx' = [subIdx EXCEPT ![b] = NextDir(r.files, 1)]
                    /\ listFailed' = listFailed
                    /\ IF isSiteDirectory(r.files)
                       THEN /\ siteInfo' = [siteInfo EXCEPT ![b] = NewSiteInfo(ProcessorPath(b))]
                            /\ pc' = [pc EXCEPT ![b] = "plist"]
                       ELSE /\ pc' = [pc EXCEPT ![b] = LoopPc(r.files, 1)]
                            /\ UNCHANGED siteInfo
    /\ UNCHANGED <<direct, tree, mpc, wg, chanClosed, procItems, fileIdx, hpc, cur, sse,
                   received, recvFrom, outcomes>>

\* a goroutine that returned on a failed listing without the deferred
\* wg.Done()
ListNoDefer(b) == ListStep(b, "done")

\* a goroutine that publishes its (empty) record although its listing failed
ListSendsOnFailure(b) == ListStep(b, "send")

\* on a failed listing: log and return, which runs the deferred wg.Done()
\* (main.go:183-186)
List(b) == ListStep(b, "ret")

\* processSiteDirectory: its own listing (main.go:149-154); failPc is where
\* the goroutine goes on when the listing failed
ProcListStep(b, failPc) ==
    /\ pc[b] = "plist"
    /\ LET sitePath == siteInfo[b].SitePath
       IN  \E resp \in Responses(convertToGiteaAPIURL(sitePath)) :
            \E r \in {getGiteaDirectoryListing(sitePath, resp)} :
                /\ Request(b, "plist", convertToGiteaAPIURL(sitePath), resp)
                /\ IF ~r.ok
                   THEN /\ siteInfo' = [siteInfo EXCEPT ![b] = AppendListingError(@, r.err)]
                        /\ pc' = [pc EXCEPT ![b] = failPc]
                        /\ UNCHANGED <<procItems, fileIdx>>
                   ELSE /\ procItems' = [procItems EXCEPT ![b] = r.files]
                        /\ fileIdx' = [fileIdx EXCEPT ![b] = NextFile(r.files, 1)]
                        /\ pc' = [pc EXCEPT ![b] =
                                    IF NextFile(r.files, 1) <= Len(r.files)
                                    THEN "file" ELSE "send"]
                        /\ UNCHANGED siteInfo
    /\ UNCHANGED <<direct, tree, mpc, wg, chanClosed, items, subIdx, hpc, cur, sse,
                   received, recvFrom, outcomes, listFailed>>

\* a processor that returns on a failed listing without sending its record
ProcListNoSend(b) == ProcListStep(b, LoopPc(items[b], 1))

\* on a failed listing: siteInfoChan <- siteInfo; return (main.go:150-154)
ProcList(b) == ProcListStep(b, "send")

Outcome(r) ==
    IF ~r.ok THEN "fetch" ELSE IF Len(hostnameRegex(r.body.text)) > 1 THEN "hostname" ELSE "absent"

\* processSiteDirectory: one matched file (main.go:156-175); the records in
\* written are the ones the pass appends to
ProcFileStep(b, written) ==
    /\ pc[b] = "file"
    /\ LET file == procItems[b][fileIdx[b]]
           fileURL == FileURL(siteInfo[b].SitePath, file)
           next == NextFile(procItems[b], fileIdx[b] + 1)
       IN  \E resp \in Responses(fileURL) :
            \E r \in {fetchURL(fileURL, resp)} :
                /\ Request(b, "raw", fileURL, resp)
                /\ siteInfo' = [d \in Dirs |-> IF d \in written
                                                THEN ProcessFile(siteInfo[d], file, r)
                                                ELSE siteInfo[d]]
                /\ outcomes' = [outcomes EXCEPT ![b] = Append(@, Outcome(r))]
                /\ fileIdx' = [fileIdx EXCEPT ![b] = next]
                /\ pc' = [pc EXCEPT ![b] = IF next <= Len(procItems[b]) THEN "file" ELSE "send"]
    /\ UNCHANGED <<direct, tree, mpc, wg, chanClosed, items, procItems, subIdx, hpc, cur,
                   sse, received, recvFrom, listFailed>>

\* a processor whose record is one variable shared by the goroutines: the
\* pass appends to every record under assembly
ProcFileShared(b) ==
    ProcFileStep(b, {d \in Dirs : d = b \/ pc[d] \in {"file", "send"}})

\* siteInfo is a local of processSiteDirectory (main.go:147)
ProcFile(b) == ProcFileStep(b, {b})

\* a sender that goes on without the receiver having taken the record
SendNoRendezvous(b) ==
    /\ pc[b] = "send"
    /\ pc' = [pc EXCEPT ![b] = LoopPc(items[b], 1)]
    /\ UNCHANGED <<direct, tree, fails, mpc, wg, chanClosed, items, siteInfo, procItems,
                   fileIdx, subIdx, hpc, cur, sse, received, recvFrom, requests,
                   outcomes, listFailed>>

\* siteInfoChan <- siteInfo meets the receive of dataHandler's range: the
\* channel is unbuffered (main.go:61, 70, 152, 176)
Send(b) ==
    /\ pc[b] = "send"
    /\ hpc = "range"
    /\ ~chanClosed
    /\ cur' = siteInfo[b]
    /\ received' = Append(received, siteInfo[b])
    /\ recvFrom' = Append(recvFrom, b)
    /\ hpc' = "write"
    /\ pc' = [pc EXCEPT ![b] = LoopPc(items[b], 1)]
    /\ UNCHANGED <<direct, tree, fails, mpc, wg, chanClosed, items, siteInfo, procItems,
                   fileIdx, subIdx, sse, requests, outcomes, listFailed>>

\* go discoverSitesRecursively(dirPath) for the next directory of items, n
\* being the WaitGroup counter when the goroutine starts (main.go:196-205)
SpawnStep(b, n) ==
    /\ pc[b] = "spawn"
    /\ LET k == subIdx[b]
           dirPath == JoinPath(b, items[b][k].Name)
       IN  /\ wg' = n
           /\ pc' = [pc EXCEPT ![dirPath] = "list", ![b] = LoopPc(items[b], k + 1)]
           /\ subIdx' = [subIdx EXCEPT ![b] = NextDir(items[b], k + 1)]
    /\ UNCHANGED <<direct, tree, fails, mpc, chanClosed, items, siteInfo, procItems,
                   fileIdx, hpc, cur, sse, received, recvFrom, requests, outcomes,
                   listFailed>>

\* a child started without wg.Add(1) before the go statement
SpawnNoAdd(b) == SpawnStep(b, wg)

\* wg.Add(1) precedes the go statement (main.go:202-203)
Spawn(b) == SpawnStep(b, wgAdd(wg))

\* discoverSitesRecursively returns: the deferred wg.Done() (main.go:180)
Return(b) ==
    /\ pc[b] = "ret"
    /\ wg' = wgDone(wg)
    /\ pc' = [pc EXCEPT ![b] = "done"]
    /\ UNCHANGED <<direct, tree, fails, mpc, chanClosed, items, siteInfo, procItems,
                   fileIdx, subIdx, hpc, cur, sse, received, recvFrom, requests,
                   outcomes, listFailed>>

\* wg.Wait() returns (main.go:220)
Wait ==
    /\ mpc = "wait"
    /\ wg = 0
    /\ mpc' = "close"
    /\ UNCHANGED <<direct, tree, fails, wg, chanClosed, pc, items, siteInfo, procItems,
                   fileIdx, subIdx, hpc, cur, sse, received, recvFrom, requests,
                   outcomes, listFailed>>

\* the deferred close(siteInfoChan) (main.go:65)
Close ==
    /\ mpc = "close"
    /\ chanClosed' = TRUE
    /\ mpc' = "end"
    /\ UNCHANGED <<direct, tree, fails, wg, pc, items, siteInfo, procItems, fileIdx,
                   subIdx, hpc, cur, sse, received, recvFrom, requests, outcomes,
                   listFailed>>

\* dataHandler writes the record as one SSE frame and flushes (main.go:71-78)
WriteEvent ==
    /\ hpc = "write"
    /\ sse' = Append(sse, [field |-> "data", value |-> Marshal(cur)])
    /\ hpc' = "range"
    /\ UNCHANGED <<direct, tree, fails, mpc, wg, chanClosed, pc, items, siteInfo,
                   procItems, fileIdx, subIdx, cur, received, recvFrom, requests,
                   outcomes, listFailed>>

\* the range over the closed channel ends (main.go:70, 81)
Finish ==
    /\ hpc = "range"
    /\ chanClosed
    /\ hpc' = "finished"
    /\ UNCHANGED <<direct, tree, fails, mpc, wg, chanClosed, pc, items, siteInfo,
                   procItems, fileIdx, subIdx, cur, sse, received, recvFrom,
                   requests, outcomes, listFailed>>

Next ==
    \/ Start
    \/ \E b \in Dirs : List(b)
    \/ \E b \in Dirs : ProcList(b)
    \/ \E b \in Dirs : ProcFile(b)
    \/ \E b \in Dirs : Send(b)
    \/ \E b \in Dirs : Spawn(b)
    \/ \E b \in Dirs : Return(b)
    \/ Wait
    \/ Close
    \/ WriteEvent
    \/ Finish

Spec == Init /\ [][Next]_vars

\* The Go scheduler starves no runnable goroutine, every GET returns within
\* the client's timeout (main.go:93), and the handler keeps receiving: a step
\* that stays possible is eventually taken.  Every behaviour is finite (no
\* action can be repeated for ever), so weak fairness of the next-state
\* relation is all that fairness of each goroutine adds.
Fairness == WF_vars(Next)

FairSpec == Spec /\ Fairness

\* ------------------------------------------------------------------------
\* The functions applied on their own: isSiteDirectory, hostnameRegex and
\* the body of the loop of processSiteDirectory, each on generated inputs
\* ------------------------------------------------------------------------

\* the strings of at most n characters of alphabet
StringsUpTo(alphabet, n) == UNION {{Empty \o f : f \in [1..k -> alphabet]} : k \in 0..n}

\* names around the shape of bmNodeFileRegex: each literal piece present or
\* not, something or nothing before and after
GenNames ==
    {pre \o lit \o mid \o ext \o post :
        pre \in {Empty, <<"x">>}, lit \in {Empty, BmNodeLit},
        mid \in StringsUpTo({"1", "\n"}, MaxMid),
        ext \in {Empty, YamlLit}, post \in {Empty, <<"x">>}}

GenEntries == {[Name |-> n, Type |-> ty, DownloadURL |-> Empty] :
                    n \in GenNames, ty \in {"file", "dir"}}

\* entries put next to a generated one
FixedEntries ==
    {[Name |-> NameNotes, Type |-> "file", DownloadURL |-> Empty],
     [Name |-> NameNode1, Type |-> "dir", DownloadURL |-> Empty],
     [Name |-> NameNode1, Type |-> "file", DownloadURL |-> Empty]}

GenListings ==
    {<< >>} \cup {<<e>> : e \in GenEntries}
            \cup {<<e, f>> : e \in GenEntries, f \in FixedEntries}
            \cup {<<f, e>> : e \in GenEntries, f \in FixedEntries}

\* what may follow the value of an annotation
SecondAnnotation == <<"\n">> \o HostnameKey \o <<" ", "z", "\n">>
GenAfter == {Empty, <<"\n">>, SecondAnnotation, <<"\n", "k", ":", " ", "v", "\n">>}

\* the pieces of a content around the shape of hostnameRegex: the key
\* follows pre, then whitespace, a quote or none, a value or none, a quote
\* or none
GenParts ==
    [pre : {Empty, <<"x", ":", " ", "y", "\n", " ">>},
     ws : StringsUpTo({" ", "\n"}, MaxWs),
     open : {Empty, <<"\"">>, <<"'">>},
     val : StringsUpTo({"h", "1"}, MaxVal),
     close : {Empty, <<"\"">>, <<"'">>},
     post : GenAfter]

Compose(p) == p.pre \o HostnameKey \o p.ws \o p.open \o p.val \o p.close \o p.post

NoParts == [pre |-> Empty, ws |-> Empty, open |-> Empty, val |-> Empty,
            close |-> Empty, post |-> Empty]

\* the generated contents, and contents that never hold the key
GenContents ==
    {[content |-> Compose(p), annotated |-> TRUE, parts |-> p] : p \in GenParts}
    \cup {[content |-> c, annotated |-> FALSE, parts |-> NoParts] :
            c \in {Empty, TextNone, SubSeq(HostnameKey, 1, Len(HostnameKey) - 1),
                   SubSeq(HostnameKey, 1, Len(HostnameKey) - 1) \o <<" ", "h", "\n">>,
                   Tail(HostnameKey) \o <<" ", "h", "\n">>}}

\* a function is about to be called on generated arguments
DirectInit ==
    /\ Constructed(1)
    /\ mpc = "call"
    /\ ret = << >>
    /\ local = NoLocal
    /\ Unmounted
    /\ \/ call = "isSiteDirectory" /\ arg \in GenListings
       \/ call = "hostnameRegex" /\ arg \in GenContents
       \/ /\ call = "ProcessFile"
          /\ \E name \in {NameNode1, NameNode2}, in \in GenContents, neterr \in BOOLEAN :
               \E file \in {[Name |-> name, Type |-> "file", DownloadURL |-> Empty]},
                  resp \in {IF neterr THEN TransportError
                            ELSE [neterr |-> FALSE, StatusCode |-> 200, Status |-> "200 OK",
                                  body |-> [json |-> "none", items |-> << >>,
                                            text |-> in.content]]} :
                   arg = [file |-> file, in |-> in,
                          r |-> fetchURL(FileURL(NameA, file), resp)]

\* isSiteDirectory(items) (main.go:137-144)
CallIsSiteDirectory ==
    /\ mpc = "call" /\ call = "isSiteDirectory"
    /\ ret' = isSiteDirectory(arg)
    /\ mpc' = "returned"
    /\ UNCHANGED <<call, arg, local, browser, tree, fails, wg, chanClosed, pc, items,
                   siteInfo, procItems, fileIdx, subIdx, hpc, cur, sse, received,
                   recvFrom, requests, outcomes, listFailed>>

\* hostnameRegex.FindStringSubmatch(string(content)) (main.go:168)
CallHostnameRegex ==
    /\ mpc = "call" /\ call = "hostnameRegex"
    /\ ret' = hostnameRegex(arg.content)
    /\ mpc' = "returned"
    /\ UNCHANGED <<call, arg, local, browser, tree, fails, wg, chanClosed, pc, items,
                   siteInfo, procItems, fileIdx, subIdx, hpc, cur, sse, received,
                   recvFrom, requests, outcomes, listFailed>>

\* one turn of the loop of processSiteDirectory (main.go:156-174) on a
\* matched file, arg.r being what fetchURL returned for it
CallProcessFile ==
    /\ mpc = "call" /\ call = "ProcessFile"
    /\ ret' = ProcessFile(NewSiteInfo(NameA), arg.file, arg.r)
    /\ mpc' = "returned"
    /\ UNCHANGED <<call, arg, local, browser, tree, fails, wg, chanClosed, pc, items,
                   siteInfo, procItems, fileIdx, subIdx, hpc, cur, sse, received,
                   recvFrom, requests, outcomes, listFailed>>

DirectNext == CallIsSiteDirectory \/ CallHostnameRegex \/ CallProcessFile

DirectSpec == DirectInit /\ [][DirectNext]_vars

\* the function f has returned
Returned(f) == call = f /\ mpc = "returned"

\* ------------------------------------------------------------------------
\* One fetch against a remote server of any behaviour: fetchURL of main.go
\* (call = "fetchURL") and fetchUrl of the sequential twin (call = "fetchUrl")
\* ------------------------------------------------------------------------

Url(k) == <<"https://host/", ToString(k)>>
Urls == {Url(k) : k \in 1..NumUrls}

\* what a server does with a GET of u: answers 200 with a body, answers 404,
\* fails the connection, stays silent, or answers 301 - without a Location,
\* or with the Location of another URL and then closing the socket or not
Answers(u) ==
    {[kind |-> k, location |-> Empty, keepOpen |-> FALSE] :
        k \in {"ok", "status", "error", "silent", "redirect"}}
    \cup {[kind |-> "redirect", location |-> v, keepOpen |-> o] :
            v \in Urls \ {u}, o \in BOOLEAN}

Servers == {f \in [Urls -> UNION {Answers(u) : u \in Urls}] :
                \A u \in Urls : f[u] \in Answers(u)}

\* the response an answer puts on the wire
ResponseOf(a) ==
    CASE a.kind = "ok" ->
            [neterr |-> FALSE, StatusCode |-> 200, Status |-> "200 OK",
             body |-> [json |-> "none", items |-> << >>, text |-> TextH1]]
      [] a.kind = "status" ->
            [neterr |-> FALSE, StatusCode |-> 404, Status |-> "404 Not Found",
             body |-> NoBody]
      [] a.kind = "redirect" ->
            [neterr |-> FALSE, StatusCode |-> 301, Status |-> "301 Moved Permanently",
             body |-> NoBody]
      [] OTHER -> TransportError

\* net/http follows at most 10 redirects (the client of main.go:93 sets no
\* CheckRedirect)
MaxRedirects == 10

FetchInit ==
    /\ Constructed(1)
    /\ Unmounted
    /\ mpc = "call"
    /\ ret = << >>
    /\ call \in {"fetchURL", "fetchUrl"}
    /\ arg \in [url : {Url(1)}, server : Servers]
    /\ local = [url |-> Url(1), redirects |-> 0, open |-> {}]

\* the call returns result
ReturnResult(result) ==
    /\ ret' = result
    /\ mpc' = "returned"
    /\ local' = [local EXCEPT !.open = {}]
    /\ UNCHANGED <<call, arg, browser, tree, fails, wg, chanClosed, pc, items,
                   siteInfo, procItems, fileIdx, subIdx, hpc, cur, sse, received,
                   recvFrom, requests, outcomes, listFailed>>

\* the fetch goes on with a request of the URL to
FollowRedirect(to, counted, leftOpen) ==
    /\ local' = [url |-> to, redirects |-> local.redirects + counted,
                 open |-> local.open \cup leftOpen]
    /\ UNCHANGED <<call, arg, ret, browser, walk>>

\* client.Get(url) gets an answer (main.go:95-105): the client follows a
\* redirect unless ten were followed, and fetchURL returns on anything else
clientGet ==
    /\ mpc = "call" /\ call = "fetchURL"
    /\ \E a \in {arg.server[local.url]} :
          /\ a.kind # "silent"
          /\ IF a.kind = "redirect" /\ a.location # Empty
             THEN IF local.redirects >= MaxRedirects
                  THEN ReturnResult([ok |-> FALSE, body |-> NoBody,
                                     err |-> <<"Get ">> \o local.url
                                                \o <<": stopped after 10 redirects">>])
                  ELSE FollowRedirect(a.location, 1, {})
             ELSE ReturnResult(fetchURL(arg.url, ResponseOf(a)))

\* Timeout: 15 * time.Second of the client (main.go:93) ends the exchange,
\* redirects and body included
clientTimeout ==
    /\ mpc = "call" /\ call = "fetchURL"
    /\ ReturnResult([ok |-> FALSE, err |-> ErrGet(arg.url), body |-> NoBody])

\* the callback of client.get (part_001:46-69): a 301 or 302 with a Location
\* starts fetchUrl(location), any other status than 200 rejects, 200 resolves
\* with the body
requestResponse ==
    /\ mpc = "call" /\ call = "fetchUrl"
    /\ \E a \in {arg.server[local.url]} :
          /\ a.kind \in {"ok", "status", "redirect"}
          /\ IF a.kind = "redirect" /\ a.location # Empty
             THEN FollowRedirect(a.location, 0,
                                 IF a.keepOpen THEN {local.url} ELSE {})
             ELSE IF a.kind = "ok"
             THEN ReturnResult([ok |-> TRUE, err |-> Empty, body |-> ResponseOf(a).body])
             ELSE ReturnResult([ok |-> FALSE, body |-> NoBody,
                                err |-> <<"HTTP ", ToString(ResponseOf(a).StatusCode), ": ",
                                          statusMessage(ResponseOf(a)), " for ">>
                                            \o local.url])

\* request.on('error') (part_001:71-73)
requestError ==
    /\ mpc = "call" /\ call = "fetchUrl"
    /\ arg.server[local.url].kind = "error"
    /\ ReturnResult([ok |-> FALSE, body |-> NoBody,
                     err |-> <<"Request failed for ">> \o local.url])

\* request.setTimeout(15000, ...) (part_001:75-78): the socket of a request
\* stayed idle, because the server is silent or because the socket of a
\* followed redirect was left open; the rejection settles the whole chain
requestTimeout ==
    /\ mpc = "call" /\ call = "fetchUrl"
    /\ \E u \in local.open \cup
                (IF arg.server[local.url].kind = "silent" THEN {local.url} ELSE {}) :
          ReturnResult([ok |-> FALSE, body |-> NoBody,
                        err |-> <<"Request timeout for ">> \o u])

FetchNext ==
    \/ clientGet
    \/ clientTimeout
    \/ requestResponse
    \/ requestError
    \/ requestTimeout

\* the server acts as its behaviour says and a timer that is armed runs out
FetchFairness ==
    /\ WF_vars(clientGet) /\ WF_vars(clientTimeout)
    /\ WF_vars(requestResponse) /\ WF_vars(requestError) /\ WF_vars(requestTimeout)

FetchSpec == FetchInit /\ [][FetchNext]_vars /\ FetchFairness

\* ------------------------------------------------------------------------
\* The browser: the component App and its EventSource on /api/data
\* (dynamic-list-app/src/App.tsx), next to the walk that serves it
\* ------------------------------------------------------------------------

\* JSON.parse(event.data): the object of the frame's JSON text
JSONParse(data) ==
    [sitePath |-> data.sitePath, hostnames |-> data.hostnames,
     bmNodeFiles |-> data.bmNodeFiles, errors |-> data.errors]

\* the effect has run: new EventSource(...) has sent the request that
\* dataHandler serves (App.tsx:9-11)
BrowserInit ==
    /\ \E t \in 1..NumTrees : Constructed(t)
    /\ mpc = "start"
    /\ call = "none"
    /\ arg = << >>
    /\ ret = << >>
    /\ local = NoLocal
    /\ eventSource = "connecting"
    /\ loading = TRUE
    /\ siteData = << >>
    /\ delivered = 0

\* the response headers arrive, with the first flush or when the handler
\* returns: eventSource.onopen (App.tsx:13-16)
onopen ==
    /\ eventSource = "connecting"
    /\ Len(sse) > 0 \/ hpc = "finished"
    /\ eventSource' = "open"
    /\ loading' = FALSE
    /\ UNCHANGED <<siteData, delivered, call, arg, ret, local, walk>>

\* the next frame is dispatched: eventSource.onmessage (App.tsx:18-22)
onmessage ==
    /\ eventSource = "open"
    /\ delivered < Len(sse)
    /\ siteData' = Append(siteData, JSONParse(sse[delivered + 1].value))
    /\ delivered' = delivered + 1
    /\ UNCHANGED <<eventSource, loading, call, arg, ret, local, walk>>

\* the error event: an EventSource that is not closed by its handler goes
\* back to connecting and requests the stream again
ErrorEvent(closes) ==
    /\ eventSource' = IF closes THEN "closed" ELSE "connecting"
    /\ UNCHANGED <<loading, siteData, delivered, call, arg, ret, local, walk>>

\* a handler that only logs
onerrorNoClose == ErrorEvent(FALSE)

\* eventSource.onerror: eventSource.close() (App.tsx:24-27)
onerror == ErrorEvent(TRUE)

\* the handler has returned and every frame was dispatched: the end of the
\* response raises the error event
StreamEnd ==
    /\ eventSource = "open"
    /\ hpc = "finished"
    /\ delivered = Len(sse)
    /\ onerror

\* the connection fails, before or after it was opened
ConnectionLost ==
    /\ eventSource \in {"connecting", "open"}
    /\ onerror

\* the component stays mounted for the whole run: the cleanup of the effect
\* (App.tsx:29-32) does not run
BrowserNext ==
    \/ Next
    \/ onopen
    \/ onmessage
    \/ StreamEnd
    \/ ConnectionLost

BrowserSpec == BrowserInit /\ [][BrowserNext]_vars

\* ------------------------------------------------------------------------
\* Vocabulary of the properties
\* ------------------------------------------------------------------------

\* the goroutine of directory d has been started and has not returned
Outstanding(d) == pc[d] \notin {"idle", "done"}

\* number of records received from the goroutine of directory d
NumFrom(d) == Cardinality({k \in 1..Len(recvFrom) : recvFrom[k] = d})

\* directory d of the tree holds a file that matches the pattern
IsSite(d) == isSiteDirectory(ContentsOf(tree, d))

SiteDirs == {d \in Dirs : IsSite(d)}

\* c is a child directory of p in the tree
IsChild(p, c) ==
    \E k \in 1..Len(DirsOf(tree)[p]) :
        DirsOf(tree)[p][k].type = "dir" /\ JoinPath(p, DirsOf(tree)[p][k].name) = c

\* c lies below p in the tree
IsBelow(p, c) == c # p /\ (p = Empty \/ OccursAt(c, 1, p \o Slash))

\* every directory above d was listed by the coordinator without failure
Reached(d) == \A p \in Dirs : IsBelow(p, d) => p \notin listFailed

\* end of stream: the channel is closed and the handler's loop is over
EndOfStream == chanClosed /\ hpc = "finished"

\* the listing of the processor of d came back / failed
ProcListed(d) == \E q \in requests : q.by = d /\ q.kind = "plist" /\ q.ok
ProcListFailed(d) == \E q \in requests : q.by = d /\ q.kind = "plist" /\ ~q.ok

\* ------------------------------------------------------------------------
\* Properties
\* ------------------------------------------------------------------------

\* C1: the result channel is closed only when no branch is outstanding (the
\* counter is zero, and every directory all of whose ancestors were listed
\* has had its goroutine started and returned), so no branch is at or before
\* its send once the channel is closed.
C1_CloseOnlyWhenNoBranchOutstanding ==
    (mpc \in {"close", "end"} \/ chanClosed) =>
        /\ wg = 0
        /\ \A d \in Dirs : ~Outstanding(d)
        /\ \A d \in Dirs : pc[d] = (IF Reached(d) THEN "done" ELSE "idle")

\* a closed channel after a walk in which children were registered while
\* other branches were running
C1_Witness ==
    /\ chanClosed
    /\ tree = 3
    /\ \A d \in Dirs : pc[d] = "done"
    /\ Len(received) = 4

\* C2: under fair scheduling the run reaches the state where all branches are
\* done and the channel is closed, and the handler's receive loop ends; no
\* producer stays at its send.
C2_RunTerminates ==
    <>(EndOfStream /\ wg = 0 /\ \A d \in Dirs : ~Outstanding(d))

C2_Witness ==
    /\ EndOfStream
    /\ fails >= 1
    /\ Len(sse) >= 2

\* C3: when no listing of the coordinator failed, the records published
\* before end-of-stream are one per site directory of the tree and none for
\* any other directory.
C3_OneRecordPerSite ==
    /\ \A d \in Dirs : NumFrom(d) <= 1
    /\ (EndOfStream /\ listFailed = {}) =>
        /\ Len(sse) = Cardinality(SiteDirs)
        /\ Len(received) = Cardinality(SiteDirs)
        /\ \A d \in Dirs : NumFrom(d) = (IF IsSite(d) THEN 1 ELSE 0)
        /\ (tree = 1 => Len(sse) = 0)
        /\ (tree = 2 => Len(sse) = 2)

\* the tree with one site at the root and one at a/b, walked to the end
C3_Witness ==
    /\ EndOfStream
    /\ listFailed = {}
    /\ tree = 2
    /\ SiteDirs = {Empty, P(NameA, NameB)}
    /\ Len(sse) = 2

\* C4: when the listing of the root fails, no record is published, no child
\* branch is started, and the run completes: the counter returns to zero and
\* the channel is closed.
C4_RootListingFails ==
    /\ [](Empty \in listFailed =>
            /\ received = << >>
            /\ sse = << >>
            /\ \A d \in Dirs \ {Empty} : pc[d] = "idle")
    /\ (Empty \in listFailed ~> (wg = 0 /\ EndOfStream))

C4_Witness ==
    /\ Empty \in listFailed
    /\ EndOfStream
    /\ Cardinality(Dirs) > 1

\* C5: a directory whose listing by the coordinator failed publishes no
\* record and starts no branch for its children; every directory whose
\* ancestors were all listed is still visited, publishes its record when it is
\* a site and was listed, and the run completes.
C5_ListingFailureIsLocal ==
    /\ [](\A d \in listFailed :
            /\ NumFrom(d) = 0
            /\ \A c \in Dirs : IsBelow(d, c) => pc[c] = "idle")
    /\ [](EndOfStream =>
            \A d \in Dirs :
                Reached(d) =>
                    /\ pc[d] = "done"
                    /\ (d \notin listFailed /\ IsSite(d)) => NumFrom(d) = 1)
    /\ <>EndOfStream

\* one sibling's listing failed, the other sibling published its record
C5_Witness ==
    /\ EndOfStream
    /\ tree = 4
    /\ listFailed = {NameA}
    /\ NumFrom(NameB) = 1

\* number of entries of a listing that the processor's loop acts on
NumMatching(its) == Cardinality({k \in 1..Len(its) : IsBmNodeFile(its[k])})

\* number of matched files of d that failed: fetch failure or no annotation
NumFailed(d) ==
    Cardinality({k \in 1..Len(outcomes[d]) : outcomes[d][k] # "hostname"})

\* the processor of d has assembled its record
Assembled(d) == pc[d] \in {"send", "spawn", "ret", "done"} /\ siteInfo[d].SitePath # Empty

\* C6: a record assembled after a successful listing of N matching files, K of
\* which failed, has N entries in BMNodeFiles, N-K in Hostnames and K in
\* Errors; it is the record that is published.
C6_RecordCounts ==
    /\ \A d \in Dirs :
        (Assembled(d) /\ ProcListed(d)) =>
            LET N == NumMatching(procItems[d])
                K == NumFailed(d)
            IN  /\ Len(outcomes[d]) = N
                /\ K <= N
                /\ Len(siteInfo[d].BMNodeFiles) = N
                /\ Len(siteInfo[d].Hostnames) = N - K
                /\ Len(siteInfo[d].Errors) = K
    /\ \A k \in 1..Len(received) : received[k] = siteInfo[recvFrom[k]]

\* two matched files, one of which failed
C6_Witness ==
    \E d \in Dirs :
        /\ pc[d] = "send"
        /\ ProcListed(d)
        /\ NumMatching(procItems[d]) = 2
        /\ NumFailed(d) = 1
        /\ Len(siteInfo[d].Hostnames) = 1

\* C7 as stated: in every published record the lengths of Errors and
\* Hostnames add up to the length of BMNodeFiles.
C7_Original ==
    \A k \in 1..Len(received) :
        Len(received[k].Errors) + Len(received[k].Hostnames)
            = Len(received[k].BMNodeFiles)

\* C7 as amended: the lengths add up in every published record whose
\* directory the processor could list; the record of a directory whose
\* listing by the processor failed holds that one failure in Errors and no
\* hostname and no matched file.
C7_OutcomePerMatchedFile ==
    \A k \in 1..Len(received) :
        IF ProcListFailed(recvFrom[k])
        THEN /\ Len(received[k].Errors) = 1
             /\ received[k].Hostnames = << >>
             /\ received[k].BMNodeFiles = << >>
        ELSE /\ ProcListed(recvFrom[k])
             /\ Len(received[k].Errors) + Len(received[k].Hostnames)
                    = Len(received[k].BMNodeFiles)

C7_Witness ==
    /\ \E k \in 1..Len(received) : ProcListFailed(recvFrom[k])
    /\ \E k \in 1..Len(received) :
        /\ Len(received[k].BMNodeFiles) = 2
        /\ Len(received[k].Errors) = 1

\* C8: when the processor's own listing of a directory fails, its record
\* holds the listing failure as its only error and no hostname and no matched
\* file, no file of the directory is fetched, the record is published, and
\* the walk goes on: the children of the directory are started and every
\* directory whose ancestors were listed is visited.
C8_ProcessorListingFailure ==
    \A d \in Dirs :
        ProcListFailed(d) =>
            LET url == convertToGiteaAPIURL(siteInfo[d].SitePath)
            IN  /\ Assembled(d)
                /\ Len(siteInfo[d].Errors) = 1
                /\ siteInfo[d].Errors[1] \in
                        {ErrGet(url), ErrStatus(ServerResponse(tree, url), url)}
                /\ siteInfo[d].Hostnames = << >>
                /\ siteInfo[d].BMNodeFiles = << >>
                /\ ~\E q \in requests : q.by = d /\ q.kind = "raw"
                /\ pc[d] # "send" =>
                        \E k \in 1..Len(received) :
                            recvFrom[k] = d /\ received[k] = siteInfo[d]
                /\ pc[d] = "done" => \A c \in Dirs : IsChild(d, c) => pc[c] # "idle"
                /\ EndOfStream => \A c \in Dirs : Reached(c) => pc[c] = "done"

\* the listing of a/ by the processor timed out; its child a/b was walked
C8_Witness ==
    /\ tree = 3
    /\ ProcListFailed(NameA)
    /\ EndOfStream
    /\ NumFrom(P(NameA, NameB)) = 1
    /\ NumFrom(NameRoot) = 1

\* the names of the matching files of a listing, in listing order
MatchingNames(its) ==
    LET sel == SelectSeq(its, IsBmNodeFile)
    IN  [k \in 1..Len(sel) |-> sel[k].Name]

\* C9 as stated: the record of a directory classified as a site, the root
\* included, lists in BMNodeFiles the matching files of that directory, and
\* every file is fetched from a location under that directory.
C9_Original ==
    \A k \in 1..Len(received) :
        LET d == recvFrom[k]
        IN  ProcListed(d) =>
                /\ received[k].SitePath = PathKey(d)
                /\ received[k].BMNodeFiles = MatchingNames(ContentsOf(tree, d))
                /\ \A q \in requests :
                        (q.by = d /\ q.kind = "raw") =>
                            \E e \in 1..Len(DirsOf(tree)[d]) :
                                /\ DirsOf(tree)[d][e].type = "file"
                                /\ q.url = constructRawURL(JoinPath(d, DirsOf(tree)[d][e].name))

\* C10: the record of a site directory has been received by the handler
\* before any branch for a child of that directory is started; so no record
\* of a directory is received before the record of a site directory above it.
C10_RecordBeforeChildren ==
    /\ \A p \in Dirs : \A c \in Dirs :
        (IsChild(p, c) /\ pc[c] # "idle" /\ isSiteDirectory(items[p])) =>
            NumFrom(p) = 1
    /\ \A j \in 1..Len(recvFrom) : \A p \in Dirs :
        (IsBelow(p, recvFrom[j]) /\ isSiteDirectory(items[p])) =>
            \E i \in 1..(j - 1) : recvFrom[i] = p

\* the record of a/ and then the record of a/b
C10_Witness ==
    /\ tree = 3
    /\ \E j \in 1..Len(recvFrom) : \E i \in 1..(j - 1) :
        recvFrom[i] = NameA /\ recvFrom[j] = P(NameA, NameB)

\* name ends with "bm-node-", one or more characters of the set among, ".yaml"
EndsWithNodePattern(name, among) ==
    \E i \in 1..Len(name) :
        /\ OccursAt(name, i, BmNodeLit)
        /\ OccursAt(name, Len(name) - Len(YamlLit) + 1, YamlLit)
        /\ Len(name) - Len(YamlLit) >= i + Len(BmNodeLit)
        /\ \A k \in (i + Len(BmNodeLit))..(Len(name) - Len(YamlLit)) : name[k] \in among

\* the characters of the generated names
NameChars == {"x", "1", "\n"} \cup {BmNodeLit[k] : k \in DOMAIN BmNodeLit}
                              \cup {YamlLit[k] : k \in DOMAIN YamlLit}

\* C11 as stated: isSiteDirectory is true exactly when some entry of type
\* file has a name ending with bm-node-, one or more characters of any kind,
\* .yaml
C11_Original ==
    Returned("isSiteDirectory") =>
        (ret <=> \E k \in 1..Len(arg) :
                    arg[k].Type = "file" /\ EndsWithNodePattern(arg[k].Name, NameChars))

\* C11: isSiteDirectory is true exactly when some entry of type file has a
\* name ending with bm-node-, one or more characters none of which is a line
\* break, .yaml; so it is false for the empty listing, for a listing without
\* such a file, and when only directory entries carry such a name
C11_SiteIffMatchingFile ==
    Returned("isSiteDirectory") =>
        /\ ret <=> \E k \in 1..Len(arg) :
                      /\ arg[k].Type = "file"
                      /\ EndsWithNodePattern(arg[k].Name, NameChars \ {"\n"})
        /\ arg = << >> => ~ret
        /\ (\A k \in 1..Len(arg) : arg[k].Type = "dir") => ~ret

\* a listing of two entries, a directory and a file, both named to the
\* pattern with something before bm-node-, was classified as a site
C11_Witness ==
    /\ Returned("isSiteDirectory")
    /\ ret
    /\ Len(arg) = 2
    /\ arg[1].Type = "dir" /\ arg[1].Name = NameNode1
    /\ arg[2].Type = "file" /\ arg[2].Name = <<"x">> \o BmNodeLit \o <<"1", "1">> \o YamlLit

\* the generated content writes its value in one of the three styles
QuoteStyle(p) ==
    IF p.open = <<"\"">> /\ p.close = <<"\"">> THEN "double"
    ELSE IF p.open = <<"'">> /\ p.close = <<"'">> THEN "single"
    ELSE IF p.open = Empty /\ p.close = Empty THEN "unquoted"
    ELSE "mixed"

\* C12: for a content whose annotation line holds the key and a value V of
\* one or more non-whitespace, non-quote characters, FindStringSubmatch
\* returns V as its group 1, whether V is double-quoted, single-quoted or
\* unquoted and whatever whitespace stands between the key and the value
C12_ValueInEveryStyle ==
    (/\ Returned("hostnameRegex")
     /\ arg.annotated
     /\ arg.parts.val # Empty
     /\ QuoteStyle(arg.parts) \in {"double", "single", "unquoted"})
        => Len(ret) = 2 /\ ret[2] = arg.parts.val

\* a single-quoted value of two characters, two whitespace characters after
\* the key, text before and after the line: the value came back
C12_Witness ==
    /\ Returned("hostnameRegex")
    /\ arg.annotated
    /\ QuoteStyle(arg.parts) = "single"
    /\ Len(arg.parts.ws) = MaxWs
    /\ Len(arg.parts.val) = MaxVal
    /\ arg.parts.pre # Empty /\ arg.parts.post # Empty
    /\ Len(ret) = 2 /\ ret[2] = arg.parts.val

\* the generated content holds two matches: its own value, and the value z
\* of a second annotation on a later line
SeveralMatches(in) ==
    in.annotated /\ in.parts.val # Empty /\ in.parts.post = SecondAnnotation

\* C13: when the content holds several matches FindStringSubmatch returns
\* the value of the first, and one pass of the loop of processSiteDirectory
\* appends at most one hostname, the first value, for its file
C13_FirstMatchOnly ==
    /\ (Returned("hostnameRegex") /\ SeveralMatches(arg))
            => Len(ret) = 2 /\ ret[2] = arg.parts.val
    /\ Returned("ProcessFile")
            => /\ Len(ret.Hostnames) <= 1
               /\ (arg.r.ok /\ SeveralMatches(arg.in))
                    => ret.Hostnames = <<arg.in.parts.val>>

\* a fetched file with two annotations gave its record the first value only
C13_Witness ==
    /\ Returned("ProcessFile")
    /\ arg.r.ok
    /\ SeveralMatches(arg.in)
    /\ arg.in.parts.val # <<"z">>
    /\ ret.Hostnames = <<arg.in.parts.val>>

\* the key occurs in the content
HoldsKey(content) == \E i \in 1..Len(content) : OccursAt(content, i, HostnameKey)

\* C14: on a content that holds no annotation FindStringSubmatch returns no
\* match, and the pass of the loop for that file appends exactly
\* "No hostname annotation found in <name>" to Errors and no hostname; when
\* the fetch fails the pass appends "Error processing <name>: <cause>", a
\* different entry
C14_AbsentIsNotFailure ==
    /\ (Returned("hostnameRegex") /\ ~HoldsKey(arg.content)) => ret = << >>
    /\ (Returned("ProcessFile") /\ arg.r.ok /\ ~HoldsKey(arg.in.content))
            => /\ ret.Errors = <<<<"No hostname annotation found in ">> \o arg.file.Name>>
               /\ ret.Hostnames = << >>
    /\ (Returned("ProcessFile") /\ ~arg.r.ok)
            => /\ ret.Errors = <<<<"Error processing ">> \o arg.file.Name
                                    \o <<": ">> \o arg.r.err>>
               /\ ret.Errors # <<<<"No hostname annotation found in ">> \o arg.file.Name>>
               /\ ret.Hostnames = << >>

\* a fetched file whose content names the key without its colon got the
\* entry of a missing annotation
C14_Witness ==
    /\ Returned("ProcessFile")
    /\ arg.r.ok
    /\ arg.in.content # Empty
    /\ ~HoldsKey(arg.in.content)
    /\ OccursAt(arg.in.content, 1, SubSeq(HostnameKey, 1, Len(HostnameKey) - 1))
    /\ ret.Errors = <<<<"No hostname annotation found in ">> \o arg.file.Name>>

\* what follows the key in a generated content
AfterKey(p) == p.ws \o p.open \o p.val \o p.close \o p.post

\* the key is followed on its line by nothing but blanks and a line break
KeyLineIsBlank(p) ==
    \E k \in 1..Len(AfterKey(p)) :
        /\ AfterKey(p)[k] = "\n"
        /\ \A j \in 1..(k - 1) : AfterKey(p)[j] \in {" ", "\t"}

\* C20 as stated: when the only occurrence of the key in the content is
\* followed on its line by nothing but whitespace and a line break,
\* FindStringSubmatch returns no match, whatever the later lines hold
C20_Original ==
    (/\ Returned("hostnameRegex")
     /\ arg.annotated
     /\ arg.parts.post # SecondAnnotation
     /\ KeyLineIsBlank(arg.parts))
        => ret = << >>

\* the GETs of kind made by the goroutine of directory d
Own(d, kind) == {q \in requests : q.by = d /\ q.kind = kind}

\* the URL the processor of the record rec fetches its file name from
OwnURL(rec, name) == constructRawURL(rec.SitePath \o Slash \o name)

\* entry e of Errors came out of a GET of the goroutine of d for a file or
\* the listing of the record rec
OwnError(d, rec, e) ==
    \/ \E q \in Own(d, "plist") :
          ~q.ok /\ e \in {ErrGet(q.url), ErrStatus(ServerResponse(tree, q.url), q.url)}
    \/ \E q \in Own(d, "raw"), i \in DOMAIN rec.BMNodeFiles :
          /\ q.url = OwnURL(rec, rec.BMNodeFiles[i])
          /\ e = IF q.ok THEN <<"No hostname annotation found in ">> \o rec.BMNodeFiles[i]
                 ELSE <<"Error processing ">> \o rec.BMNodeFiles[i] \o <<": ">> \o ErrGet(q.url)

\* hostname h is the value found in a file the goroutine of d fetched
OwnHostname(d, rec, h) ==
    \E q \in Own(d, "raw"), i \in DOMAIN rec.BMNodeFiles :
        /\ q.ok
        /\ q.url = OwnURL(rec, rec.BMNodeFiles[i])
        /\ \E m \in {hostnameRegex(ServerResponse(tree, q.url).body.text)} :
              Len(m) = 2 /\ m[2] = h

\* C15: whatever the interleaving of the goroutines, every entry of the
\* BMNodeFiles, Hostnames and Errors of a published record was produced by
\* the requests the sending goroutine made for the directory the record
\* names; nothing of another goroutine's files is in it
C15_RecordHoldsOwnEntriesOnly ==
    \A k \in 1..Len(received) :
        \E rec \in {received[k]}, d \in {recvFrom[k]} :
            /\ \A i \in DOMAIN rec.BMNodeFiles :
                  \E q \in Own(d, "raw") : q.url = OwnURL(rec, rec.BMNodeFiles[i])
            /\ \A i \in DOMAIN rec.Hostnames : OwnHostname(d, rec, rec.Hostnames[i])
            /\ \A i \in DOMAIN rec.Errors : OwnError(d, rec, rec.Errors[i])

\* the sibling directories a and b of tree 4, walked by concurrent
\* goroutines, have both published: a its error and h1, b its h2 and h1
C15_Witness ==
    /\ tree = 4
    /\ EndOfStream
    /\ \E j, k \in 1..Len(received) :
          /\ recvFrom[j] = NameA /\ recvFrom[k] = NameB
          /\ received[j].Hostnames = <<<<"h", "1">>>>
          /\ Len(received[j].Errors) = 1
          /\ received[k].Hostnames = <<<<"h", "2">>, <<"h", "1">>>>
          /\ received[k].Errors = << >>

\* the value the k-th matched file of the record rec holds
ValueOfFile(rec, k) ==
    hostnameRegex(ServerResponse(tree, OwnURL(rec, rec.BMNodeFiles[k])).body.text)[2]

\* the entry of Errors of the k-th matched file of rec, whose outcome was o
MessageOfFile(rec, k, o) ==
    IF o = "absent"
    THEN <<"No hostname annotation found in ">> \o rec.BMNodeFiles[k]
    ELSE <<"Error processing ">> \o rec.BMNodeFiles[k] \o <<": ">>
            \o ErrGet(OwnURL(rec, rec.BMNodeFiles[k]))

\* the values of the successful ones of the first k matched files of rec, in
\* the order of BMNodeFiles, os being the outcomes of the files
RECURSIVE ValuesInOrder(_, _, _)
ValuesInOrder(rec, os, k) ==
    IF k = 0 THEN << >>
    ELSE IF os[k] = "hostname"
    THEN Append(ValuesInOrder(rec, os, k - 1), ValueOfFile(rec, k))
    ELSE ValuesInOrder(rec, os, k - 1)

\* the messages of the failed ones of the first k matched files of rec
RECURSIVE MessagesInOrder(_, _, _)
MessagesInOrder(rec, os, k) ==
    IF k = 0 THEN << >>
    ELSE IF os[k] # "hostname"
    THEN Append(MessagesInOrder(rec, os, k - 1), MessageOfFile(rec, k, os[k]))
    ELSE MessagesInOrder(rec, os, k - 1)

\* C16: in a record published after a successful listing every matched file
\* of the listing was processed, whatever the outcome of the files before
\* it: BMNodeFiles is the matching names in listing order, Hostnames the
\* values of the successful files in that order, Errors the messages of the
\* failed files in that order
C16_OutcomesInOrder ==
    \A j \in 1..Len(received) :
        \E rec \in {received[j]}, d \in {recvFrom[j]} :
            ProcListed(d) =>
                /\ rec.BMNodeFiles = MatchingNames(procItems[d])
                /\ Len(outcomes[d]) = Len(rec.BMNodeFiles)
                /\ rec.Hostnames = ValuesInOrder(rec, outcomes[d], Len(outcomes[d]))
                /\ rec.Errors = MessagesInOrder(rec, outcomes[d], Len(outcomes[d]))

\* records of two matched files each: one whose first file failed to be
\* fetched and whose second gave its value, one with two values in order
C16_Witness ==
    \E j, k \in 1..Len(received) :
        /\ outcomes[recvFrom[j]] = <<"fetch", "hostname">>
        /\ Len(received[j].Errors) = 1 /\ Len(received[j].Hostnames) = 1
        /\ outcomes[recvFrom[k]] = <<"hostname", "hostname">>
        /\ received[k].Hostnames = <<<<"h", "2">>, <<"h", "1">>>>

\* the GET q was answered, with something that is no JSON array
NotListable(q) == q.ok /\ ServerResponse(tree, q.url).body.json # "array"

\* C17: when the listing of a path is answered with something that is no
\* array (the path is a single file) getGiteaDirectoryListing returns an
\* empty listing and no error: the goroutine of that path ends without a
\* record, without a failure and without starting a goroutine, and a
\* processor that listed such a path has no item and no error
C17_NotListableIsEmpty ==
    \A q \in requests :
        NotListable(q) =>
            /\ q.kind = "list" =>
                  /\ q.by \notin listFailed
                  /\ items[q.by] = << >>
                  /\ pc[q.by] \in {"ret", "done"}
                  /\ NumFrom(q.by) = 0
                  /\ siteInfo[q.by] = NewSiteInfo(Empty)
                  /\ \A r \in requests : ~IsBelow(q.by, r.by)
            /\ q.kind = "plist" =>
                  /\ procItems[q.by] = << >>
                  /\ siteInfo[q.by].Errors = << >>

\* the path bm-node-2.yaml of tree 5, listed as a directory by its parent,
\* answered as a single file: its goroutine is over and the stream has ended
C17_Witness ==
    /\ tree = 5
    /\ EndOfStream
    /\ pc[NameNode2] = "done"
    /\ \E q \in Own(NameNode2, "list") : NotListable(q)

\* the matched entries of the listing the processor of d works on
MatchedEntries(d) == {k \in DOMAIN procItems[d] : IsBmNodeFile(procItems[d][k])}

\* C19 as stated: every file is fetched from the download_url of its entry
\* when the entry has one, from the synthesized URL otherwise
C19_Original ==
    \A q \in requests :
        q.kind = "raw" =>
            \E k \in MatchedEntries(q.by) :
                q.url = IF procItems[q.by][k].DownloadURL # Empty
                        THEN procItems[q.by][k].DownloadURL
                        ELSE constructRawURL(siteInfo[q.by].SitePath \o Slash
                                                \o procItems[q.by][k].Name)

\* C19: every file is fetched from the URL synthesized from the repository
\* URL, the branch, the site path and the file name, whether or not its
\* entry carries a download_url
C19_AlwaysSynthesized ==
    \A q \in requests :
        q.kind = "raw" =>
            \E k \in MatchedEntries(q.by) :
                q.url = RawPrefix \o siteInfo[q.by].SitePath \o Slash
                            \o procItems[q.by][k].Name

\* a file whose entry advertises a download_url under another address was
\* fetched, from the synthesized URL
C19_Witness ==
    \E q \in requests :
        /\ q.kind = "raw"
        /\ q.ok
        /\ \E k \in MatchedEntries(q.by) :
              /\ q.url = RawPrefix \o siteInfo[q.by].SitePath \o Slash
                            \o procItems[q.by][k].Name
              /\ procItems[q.by][k].DownloadURL # Empty
              /\ procItems[q.by][k].DownloadURL # q.url

\* the URLs whose request timed out in this run
TimedOut == {q.url : q \in {r \in requests :
                                ~r.ok /\ ServerResponse(tree, r.url).StatusCode = 200}}

\* every URL had one outcome in this run, so the run is one assignment of
\* outcomes to URLs
OneOutcomePerURL ==
    \A q, r \in requests : q.url = r.url => q.ok = r.ok

\* the records streamed, as marshalled
Streamed == {Marshal(received[k]) : k \in 1..Len(received)}

\* the values of the map the sequential twin returns for the same tree and
\* the same outcomes
StreamedIsMapValues ==
    \E m \in {extractHostnamesFromGiteaRepositoryTs(tree, TimedOut)} :
        Streamed = {m[x] : x \in DOMAIN m}

\* C18 as stated: for every tree and every assignment of outcomes the set of
\* records the concurrent walk has streamed when the stream ends is the set
\* of values of the map the sequential walk returns
C18_Original == (EndOfStream /\ OneOutcomePerURL) => StreamedIsMapValues

\* C21 as stated: every fetch, of either implementation and against every
\* server, eventually returns the content or a failure
C21_Original == (mpc = "call") ~> (mpc = "returned")

\* C22 as stated: no two records published in a run carry the same
\* sitePath, the record of the tree root and the record of a top-level
\* directory named root included
C22_Original ==
    \A j, k \in 1..Len(sse) :
        j # k => sse[j].value.sitePath # sse[k].value.sitePath

\* the run is complete for the browser: the connection was opened, the
\* handler has returned, every frame was dispatched and the connection is
\* closed
CompletedRun ==
    /\ EndOfStream
    /\ ~loading
    /\ delivered = Len(sse)
    /\ eventSource = "closed"

\* C23: every message event appends its record to siteData, so the list is
\* at any time the records of the frames dispatched, in arrival order; the
\* EventSource changes only from connecting to open and from there or from
\* connecting to closed, which it never leaves; and after a completed run
\* the list shown is the sequence of the records of that run, each once
C23_ListIsTheRun ==
    /\ [](siteData = [k \in 1..delivered |-> JSONParse(sse[k].value)])
    /\ [][eventSource' # eventSource =>
            \/ eventSource = "connecting" /\ eventSource' = "open"
            \/ eventSource \in {"connecting", "open"} /\ eventSource' = "closed"]_vars
    /\ [](CompletedRun =>
            siteData = [k \in 1..Len(received) |-> Marshal(received[k])])

\* a run that published three records is complete and the connection is
\* closed: the list holds the three
C23_Witness ==
    /\ CompletedRun
    /\ Len(received) = 3
    /\ Len(siteData) = 3
====
